---- MODULE Spec2Model ----
(***************************************************************************)
(* Chunked image transfer over MQTT.                                       *)
(*                                                                         *)
(*   receiver : src/scripts/BrainlyTree_Python_AppV2.py (on_message,       *)
(*              save_image, the image_chunks defaultdict)                  *)
(*   sender   : src/mqtt-test-device-simulator.py (MockESP32Device and the *)
(*              three test drivers)                                        *)
(*                                                                         *)
(* Strings that the code concatenates (device id, image name, the key      *)
(* f"{device_id}|{image_name}") are sequences of characters, byte strings  *)
(* are sequences of integers 0..255, Python's None is the value None.      *)
(***************************************************************************)
EXTENDS Integers, Sequences, FiniteSets, TLC

VARIABLES
    \* ---- receiver (BrainlyTree_Python_AppV2.py)
    image_chunks,   \* the module-level defaultdict: key -> buffer
    saved,          \* what the latest save_image call wrote (NoFile: none yet)
    save_calls,     \* key -> number of save_image calls for that key
    recv_out,       \* the messages the latest on_message call published
    last_msg,       \* kind of the payload the latest on_message call handled
    delivered,      \* SpecOrder, SpecLossy: what was delivered so far, in order
    \* ---- the artifact under transfer and the transport
    image_data,     \* bytes of the image being transferred
    chunk_size,     \* chunk size of the transfer
    net,            \* messages in flight to the receiver (SpecOrder)
    \* ---- sender (mqtt-test-device-simulator.py)
    test,           \* the test driver that runs
    pc,             \* where the main thread stands
    i,              \* simulate_offline_recovery's loop index (0 in the other tests)
    chunk_id,       \* _send_chunks' loop variable
    current_image_name,        \* MockESP32Device fields
    awaiting_ack,
    missing_chunks_requested,
    cb,             \* the MQTT callback thread: the message it is handling
    out,            \* the messages the latest step published, in order
    result,         \* what the test driver returned ("none": still running)
    hist            \* observations of the run, not read by the program

recv_vars == <<image_chunks, saved, save_calls, recv_out, last_msg, delivered>>

dev_vars == <<test, pc, i, chunk_id, current_image_name, awaiting_ack,
              missing_chunks_requested, cb, out, result, hist>>

vars == <<image_chunks, saved, save_calls, recv_out, last_msg, delivered,
          image_data, chunk_size, net,
          test, pc, i, chunk_id, current_image_name, awaiting_ack,
          missing_chunks_requested, cb, out, result, hist>>

-----------------------------------------------------------------------------
\* Bounds of the model

\* largest image, in bytes
MaxImageSize == 3
\* largest chunk size, in bytes
MaxChunkSize == 2
\* chunk_id values of inbound chunk messages are 0..MaxChunkId
MaxChunkId == 2
\* total_chunk_count values of inbound metadata messages are 0..MaxTotal
MaxTotal == 3
\* save_image calls counted per key in one run
MaxSaves == 2
\* the random image generator has MaxSeed + 1 outcomes per size
MaxSeed == 1
\* resend rounds followed for one artifact
MaxResendRounds == 3
\* chunk ids a missing-chunk notice may name are 0..MaxNoticeId
MaxNoticeId == 2
\* a missing-chunk notice names at most MaxNoticeLen chunk ids
MaxNoticeLen == 2

-----------------------------------------------------------------------------
\* Values

\* Python's None for max_chunks (an integer that no count equals)
None == -1

Min(a, b) == IF a <= b THEN a ELSE b

\* the image of s bytes whose bytes are pairwise distinct
Image(s) == [j \in 1..s |-> j]

Images == {Image(s) : s \in 1..MaxImageSize}

DeviceIds == {<<"d">>}

ImageNames == {<<"x">>}

\* no file written yet
NoFile == [key |-> <<>>, image_name |-> <<>>, bytes |-> <<>>,
           max_chunks |-> None, ids |-> {}]

-----------------------------------------------------------------------------
\* Sender side: chunking (MockESP32Device._send_metadata / _send_chunks)

\* total_chunks = (len(image_data) + chunk_size - 1) // chunk_size
TotalChunks(data, csize) == (Len(data) + csize - 1) \div csize

\* image_data[start:end], 0-based and end-exclusive, empty when start >= end
Slice(data, start, end) ==
    IF start >= end THEN <<>> ELSE SubSeq(data, start + 1, end)

\* start = chunk_id * chunk_size; end = min(start + chunk_size, len(image_data))
ChunkData(data, csize, cid) ==
    Slice(data, cid * csize, Min(cid * csize + csize, Len(data)))

-----------------------------------------------------------------------------
\* Wire forms of a chunk payload inside the JSON message.  A JSON string
\* holding base64 text is [kind |-> "b64", bytes |-> b]; a JSON array of
\* integers (list(chunk_data)) is [kind |-> "list", bytes |-> b]; a JSON
\* string that is not base64 text is [kind |-> "badstr", bytes |-> <<>>].

B64Str(b) == [kind |-> "b64", bytes |-> b]

IntList(b) == [kind |-> "list", bytes |-> b]

\* base64.b64decode(x): the bytes of a base64 string; raises on a list
\* (TypeError) and on text with wrong padding (binascii.Error)
B64DecodeOk(w) == w.kind = "b64"

B64Decode(w) == w.bytes

-----------------------------------------------------------------------------
\* Receiver: BrainlyTree_Python_AppV2.py

\* image_key = f"{device_id}|{image_name}"
ImageKey(device_id, image_name) == device_id \o <<"|">> \o image_name

\* the defaultdict's factory value
NewBuffer == [max_chunks |-> None, chunks |-> <<>>, received_count |-> 0]

\* a buffer that files each chunk under its position of arrival
PutChunkByArrival(chunks, cid, b) ==
    [j \in (DOMAIN chunks) \cup {Cardinality(DOMAIN chunks)} |->
        IF j = Cardinality(DOMAIN chunks) THEN b ELSE chunks[j]]

\* data['chunks'][chunk_id] = chunk_bytes
PutChunk(chunks, cid, b) ==
    [j \in (DOMAIN chunks) \cup {cid} |-> IF j = cid THEN b ELSE chunks[j]]

SetMin(S) == CHOOSE x \in S : \A y \in S : x <= y

RECURSIVE JoinSorted(_, _)
\* b''.join(chunks[m] for m in S), S taken in ascending order
JoinSorted(chunks, S) ==
    IF S = {} THEN <<>>
    ELSE LET m == SetMin(S) IN chunks[m] \o JoinSorted(chunks, S \ {m})

SetMax(S) == CHOOSE x \in S : \A y \in S : x >= y

RECURSIVE JoinDescending(_, _)
JoinDescending(chunks, S) ==
    IF S = {} THEN <<>>
    ELSE LET m == SetMax(S) IN chunks[m] \o JoinDescending(chunks, S \ {m})

\* mutant of MergedBytes: the chunks joined in the wrong order
MergedBytesUnsorted(chunks) == JoinDescending(chunks, DOMAIN chunks)

\* merged_bytes = b''.join(chunks[i] for i in sorted(chunks))
MergedBytes(chunks) == JoinSorted(chunks, DOMAIN chunks)

\* save_image: writes the merged bytes to a new file, then
\* del image_chunks[image_key].  sv is the file written together with the
\* buffer the call saw; n is the number of save_image calls made.
SaveImage(ic, sv, image_key, image_name) ==
    [ic |-> [k \in (DOMAIN ic) \ {image_key} |-> ic[k]],
     sv |-> [key |-> image_key,
             image_name |-> image_name,
             bytes |-> MergedBytes(ic[image_key].chunks),
             max_chunks |-> ic[image_key].max_chunks,
             ids |-> DOMAIN ic[image_key].chunks],
     n |-> 1]

\* the metadata branch: 'total_chunk_count' in payload and no 'chunk_id'
OnMetadata(ic, sv, p) ==
    LET image_key == ImageKey(p.device_id, p.image_name)
        total_chunks == p.total_chunk_count
    IN  [ic |-> IF image_key \notin DOMAIN ic
                THEN [k \in (DOMAIN ic) \cup {image_key} |->
                        IF k = image_key
                        THEN [max_chunks |-> total_chunks,
                              chunks |-> <<>>,
                              received_count |-> 0]
                        ELSE ic[k]]
                ELSE [ic EXCEPT ![image_key].max_chunks = total_chunks],
         sv |-> sv, n |-> 0]

\* the completion test of the chunk branch
AllReceived(data) == data.received_count = data.max_chunks

\* line 87, base64.b64decode(payload['payload']), returns: the key is there
\* (no KeyError) and its value decodes (no TypeError, no binascii.Error)
PayloadDecodes(p) == "payload" \in DOMAIN p /\ B64DecodeOk(p.payload)

\* a chunk branch that fetches the buffer before it decodes the payload
OnChunkBufferFirst(ic, sv, p) ==
    LET image_key == ImageKey(p.device_id, p.image_name)
        old == IF image_key \in DOMAIN ic THEN ic[image_key] ELSE NewBuffer
        ic0 == [k \in (DOMAIN ic) \cup {image_key} |->
                  IF k = image_key THEN old ELSE ic[k]]
    IN  IF ~PayloadDecodes(p)
        THEN [ic |-> ic0, sv |-> sv, n |-> 0]
        ELSE
        LET chunks == PutChunk(old.chunks, p.chunk_id, B64Decode(p.payload))
            data == [max_chunks |-> old.max_chunks,
                     chunks |-> chunks,
                     received_count |-> Cardinality(DOMAIN chunks)]
            ic1 == [k \in (DOMAIN ic) \cup {image_key} |->
                      IF k = image_key THEN data ELSE ic[k]]
        IN  IF AllReceived(data)
            THEN SaveImage(ic1, sv, image_key, p.image_name)
            ELSE [ic |-> ic1, sv |-> sv, n |-> 0]

\* the chunk branch: 'chunk_id' in payload
OnChunk(ic, sv, p) ==
    IF ~PayloadDecodes(p)
    THEN [ic |-> ic, sv |-> sv, n |-> 0]           \* line 87 raised: except branch
    ELSE
    LET image_key == ImageKey(p.device_id, p.image_name)
        old == IF image_key \in DOMAIN ic THEN ic[image_key] ELSE NewBuffer
        chunks == PutChunk(old.chunks, p.chunk_id, B64Decode(p.payload))
        data == [max_chunks |-> old.max_chunks,
                 chunks |-> chunks,
                 received_count |-> Cardinality(DOMAIN chunks)]
        ic1 == [k \in (DOMAIN ic) \cup {image_key} |->
                  IF k = image_key THEN data ELSE ic[k]]
    IN  IF AllReceived(data)
        THEN SaveImage(ic1, sv, image_key, p.image_name)
        ELSE [ic |-> ic1, sv |-> sv, n |-> 0]

\* on_message: the new (image_chunks, saved) after one inbound payload
on_message(ic, sv, p) ==
    IF "malformed" \in DOMAIN p
    THEN [ic |-> ic, sv |-> sv, n |-> 0]           \* json.loads raised: except branch
    ELSE IF "total_chunk_count" \in DOMAIN p /\ "chunk_id" \notin DOMAIN p
    THEN OnMetadata(ic, sv, p)
    ELSE IF "chunk_id" \in DOMAIN p
    THEN OnChunk(ic, sv, p)
    ELSE [ic |-> ic, sv |-> sv, n |-> 0]           \* "Unknown message format"

\* what one on_message call publishes: the callback has no client.publish
\* call on any of its paths, nor has save_image
ReceiverPublishes(ic, sv, p) == <<>>

\* the kind of an inbound payload, by the branch of on_message that takes it
MsgKind(p) ==
    IF "malformed" \in DOMAIN p THEN "malformed"
    ELSE IF "total_chunk_count" \in DOMAIN p /\ "chunk_id" \notin DOMAIN p
    THEN "metadata"
    ELSE IF "chunk_id" \in DOMAIN p
    THEN (IF PayloadDecodes(p) THEN "chunk" ELSE "malformed")
    ELSE "unknown"

-----------------------------------------------------------------------------
\* Inbound payloads of the receiver's topic

\* a metadata message as the receiver reads it
MetadataMsg(d, n, total) ==
    [device_id |-> d, image_name |-> n, total_chunk_count |-> total]

\* a chunk message as the receiver reads it: base64 text in 'payload'
ChunkMsg(d, n, cid, b) ==
    [device_id |-> d, image_name |-> n, chunk_id |-> cid, payload |-> B64Str(b)]

MetadataPayloads ==
    {MetadataMsg(d, n, t) : d \in DeviceIds, n \in ImageNames, t \in 0..MaxTotal}

\* chunk cid of the artifact under transfer (empty past its end)
ChunkPayloads ==
    {ChunkMsg(d, n, c, ChunkData(image_data, chunk_size, c)) :
        d \in DeviceIds, n \in ImageNames, c \in 0..MaxChunkId}

-----------------------------------------------------------------------------
\* Sender: mqtt-test-device-simulator.py
\*
\* Sizes are scaled: the simulator's 8192-byte chunks are DefaultChunkSize
\* bytes here and its 30002..80002-byte random images are 5..6 bytes, so that
\* every image still has a chunk 2 and a short last chunk.

\* chunk_size: int = 8192, and chunk_size = 8192 in _send_missing_chunks
DefaultChunkSize == 2

\* random.randint(30000, 80000)
RandMin == 3

RandMax == 4

\* simulate_offline_recovery(offline_image_count=3)
offline_image_count == 3

\* chunk_id in [2, 5, 8] of the missing_chunks test mode
SkippedChunks == {2, 5, 8}

\* --mac
DeviceMac == <<"m">>

\* self.current_image_name = None
NoName == <<>>

\* int(time.time() * 1000) at the k-th capture: later captures get later stamps
Stamp(k) == CASE k = 1 -> "t1" [] k = 2 -> "t2" [] OTHER -> "t3"

\* image_name = f"image_{timestamp}.jpg"
ImageName(k) == <<"image_", Stamp(k), ".jpg">>

\* an image of n bytes the generator may return: bytes that differ from
\* position to position and from seed to seed
MkImage(n, seed) == [j \in 1..n |-> 16 * seed + j]

\* b'\xFF\xD8\xFF\xE0' + os.urandom(image_size - 4) + b'\xFF\xD9' with
\* image_size = random.randint(30000, 80000): image_size + 2 bytes
RandomImages ==
    {MkImage(size + 2, seed) : size \in RandMin..RandMax, seed \in 0..MaxSeed}

Tests == {"normal", "missing_chunks", "offline_recovery"}

\* the number of images the running test captures
Captures == IF test = "offline_recovery" THEN offline_image_count ELSE 1

\* MockESP32Device(device_mac, test_mode=...)
test_mode == IF test = "missing_chunks" THEN "missing_chunks" ELSE "normal"

\* send_status_message: the status message
StatusMsg(pending_count) ==
    [topic |-> "status",
     body |-> [device_id |-> DeviceMac, status |-> "alive",
               pendingImg |-> pending_count]]

\* _send_metadata: the metadata message (timestamp and sensor fields left out)
MetadataOut(name, data, csize) ==
    [topic |-> "data",
     body |-> [device_id |-> DeviceMac,
               image_name |-> name,
               image_size |-> Len(data),
               max_chunk_size |-> csize,
               total_chunks_count |-> TotalChunks(data, csize)]]

\* _send_chunks / _send_missing_chunks: one chunk message
ChunkOut(name, cid, data, csize) ==
    [topic |-> "data",
     body |-> [device_id |-> DeviceMac,
               image_name |-> name,
               chunk_id |-> cid,
               max_chunk_size |-> csize,
               payload |-> IntList(ChunkData(data, csize, cid))]]

\* a resend that stops one entry short of the list
ResendBatchShort(name, missing_chunk_ids, regenerated) ==
    [j \in 1..(Len(missing_chunk_ids) - 1) |->
        ChunkOut(name, missing_chunk_ids[j], regenerated, DefaultChunkSize)]

\* _send_missing_chunks: one chunk message per entry of missing_chunk_ids,
\* cut from the regenerated image_data with chunk_size = 8192
ResendBatch(name, missing_chunk_ids, regenerated) ==
    [j \in 1..Len(missing_chunk_ids) |->
        ChunkOut(name, missing_chunk_ids[j], regenerated, DefaultChunkSize)]

\* the lists a missing-chunk notice of the server may carry
NoticeLists == UNION {[1..n -> 0..MaxNoticeId] : n \in 0..MaxNoticeLen}

\* the callback thread between two messages
CbIdle == [pc |-> "idle", for |-> 0, list |-> <<>>]

\* the captures whose metadata message has been published
Started ==
    IF pc \in {"start", "capture", "metadata"}
    THEN 1..i
    ELSE 1..Min(i + 1, Captures)

\* the latest capture whose metadata message has been published
LastStarted == IF pc \in {"start", "capture", "metadata"}
               THEN i ELSE Min(i + 1, Captures)

\* hist: resends    resend rounds made for the current image
\*       story      progress of the missing-chunk scenario: 1 a chunk was
\*                  left out, 2 then a notice was answered by a resend while
\*                  the test waited, 3 then an ACK_OK was handled to its end
\*       terminal   captures whose session ended: an ACK_OK was handled, or
\*                  the wait loop timed out
\*       n_ok, n_fail, abandoned   see CheckDrain
\*       statuses   status messages published so far
\*       pending    pendingImg of the latest of them (None: none yet)
\*       own_ack    the capture in flight, once its own ACK_OK was handled
\*                  after its metadata was published; 0 again when its wait
\*                  loop has ended
HistInit == [resends |-> 0, story |-> 0, terminal |-> {},
             n_ok |-> 0, n_fail |-> 0, abandoned |-> 0,
             statuses |-> 0, pending |-> None, own_ack |-> 0]

\* a status message that reports no backlog
NoPending(t) == 0

\* the pending_count the driver of test t passes to send_status_message:
\* offline_image_count in simulate_offline_recovery, 0 in the test_* drivers
PendingCount(t) == IF t = "offline_recovery" THEN offline_image_count ELSE 0

\* ---- main thread

\* test_*: device.send_status_message(pending_count=0), and
\* simulate_offline_recovery: send_status_message(pending_count=offline_image_count)
SendStatus ==
    /\ pc = "start"
    /\ out' = <<StatusMsg(PendingCount(test))>>
    /\ pc' = "capture"
    /\ hist' = [hist EXCEPT !.statuses = @ + 1,
                            !.pending = out'[1].body.pendingImg]
    /\ UNCHANGED <<recv_vars, image_data, chunk_size, net, test, i, chunk_id,
                   current_image_name, awaiting_ack, missing_chunks_requested,
                   cb, result>>

\* capture_and_send_image up to the metadata: names the image, generates it
Capture ==
    /\ pc = "capture"
    /\ current_image_name' = ImageName(i + 1)
    /\ image_data' \in RandomImages
    /\ pc' = "metadata"
    /\ out' = <<>>
    /\ hist' = [hist EXCEPT !.resends = 0]
    /\ UNCHANGED <<recv_vars, chunk_size, net, test, i, chunk_id, awaiting_ack,
                   missing_chunks_requested, cb, result>>

\* self._send_metadata(image_name, image_data, chunk_size)
SendMetadata ==
    /\ pc = "metadata"
    /\ out' = <<MetadataOut(ImageName(i + 1), image_data, chunk_size)>>
    /\ chunk_id' = 0
    /\ pc' = "chunks"
    /\ UNCHANGED <<recv_vars, image_data, chunk_size, net, test, i,
                   current_image_name, awaiting_ack, missing_chunks_requested,
                   cb, result, hist>>

\* one pass of the loop of _send_chunks
SendChunk ==
    /\ pc = "chunks"
    /\ chunk_id < TotalChunks(image_data, chunk_size)
    /\ IF test_mode = "missing_chunks" /\ chunk_id \in SkippedChunks
       THEN /\ out' = <<>>
            /\ hist' = [hist EXCEPT !.story = 1]
       ELSE /\ out' = <<ChunkOut(ImageName(i + 1), chunk_id, image_data, chunk_size)>>
            /\ hist' = hist
    /\ chunk_id' = chunk_id + 1
    /\ UNCHANGED <<recv_vars, image_data, chunk_size, net, test, pc, i,
                   current_image_name, awaiting_ack, missing_chunks_requested,
                   cb, result>>

\* mutant of AwaitingAfterSend: awaiting_ack is left as it was
AwaitingLeftUnset == awaiting_ack

\* the value capture_and_send_image leaves in awaiting_ack:
\* self.awaiting_ack = True
AwaitingAfterSend == TRUE

\* the end of _send_chunks' loop, then self.awaiting_ack = True
ChunksSent ==
    /\ pc = "chunks"
    /\ chunk_id = TotalChunks(image_data, chunk_size)
    /\ awaiting_ack' = AwaitingAfterSend
    /\ pc' = "wait"
    /\ out' = <<>>
    /\ UNCHANGED <<recv_vars, image_data, chunk_size, net, test, i, chunk_id,
                   current_image_name, missing_chunks_requested, cb, result,
                   hist>>

\* while self.awaiting_ack and (time.time() - start_time) < timeout:
\* the loop ends because awaiting_ack is False
WaitAcked ==
    /\ pc = "wait"
    /\ ~awaiting_ack
    /\ pc' = "check"
    /\ out' = <<>>
    /\ hist' = [hist EXCEPT !.own_ack = 0]
    /\ UNCHANGED <<recv_vars, image_data, chunk_size, net, test, i, chunk_id,
                   current_image_name, awaiting_ack, missing_chunks_requested,
                   cb, result>>

\* the loop ends because the timeout has passed
WaitTimeout ==
    /\ pc = "wait"
    /\ awaiting_ack
    /\ pc' = "check"
    /\ out' = <<>>
    /\ hist' = [hist EXCEPT !.terminal = @ \cup {i + 1}, !.own_ack = 0]
    /\ UNCHANGED <<recv_vars, image_data, chunk_size, net, test, i, chunk_id,
                   current_image_name, awaiting_ack, missing_chunks_requested,
                   cb, result>>

\* the verdict of test_normal_operation and of test_missing_chunks
TestPasses ==
    IF test = "missing_chunks"
    THEN ~awaiting_ack /\ Len(missing_chunks_requested) > 0
    ELSE ~awaiting_ack

\* test_normal_operation / test_missing_chunks after the wait loop
CheckTest ==
    /\ pc = "check"
    /\ test # "offline_recovery"
    /\ result' = IF TestPasses THEN "passed" ELSE "failed"
    /\ pc' = "finish"
    /\ out' = <<>>
    /\ UNCHANGED <<recv_vars, image_data, chunk_size, net, test, i, chunk_id,
                   current_image_name, awaiting_ack, missing_chunks_requested,
                   cb, hist>>

\* mutant of DrainBreaks: the loop goes on after a timeout
DrainNeverBreaks == FALSE

\* simulate_offline_recovery: if self.awaiting_ack: ... break
DrainBreaks == awaiting_ack

\* simulate_offline_recovery after the wait loop: break on a timeout, else
\* the next pass of the loop; test_offline_recovery returns True either way.
\* hist counts the sessions that ended acknowledged (n_ok) and the sessions
\* that ended with awaiting_ack still set (n_fail, abandoned: the first one).
CheckDrain ==
    /\ pc = "check"
    /\ test = "offline_recovery"
    /\ hist' = IF awaiting_ack
               THEN [hist EXCEPT !.n_fail = @ + 1,
                                 !.abandoned = IF @ = 0 THEN i + 1 ELSE @]
               ELSE [hist EXCEPT !.n_ok = @ + 1]
    /\ IF DrainBreaks
       THEN /\ pc' = "finish"
            /\ result' = "passed"
            /\ i' = i
       ELSE /\ i' = i + 1
            /\ IF i + 1 < offline_image_count
               THEN pc' = "capture" /\ result' = result
               ELSE pc' = "finish" /\ result' = "passed"
    /\ out' = <<>>
    /\ UNCHANGED <<recv_vars, image_data, chunk_size, net, test, chunk_id,
                   current_image_name, awaiting_ack, missing_chunks_requested,
                   cb>>

\* device.disconnect(): loop_stop() joins the callback thread
Disconnect ==
    /\ pc = "finish"
    /\ cb = CbIdle
    /\ pc' = "done"
    /\ out' = <<>>
    /\ UNCHANGED <<recv_vars, image_data, chunk_size, net, test, i, chunk_id,
                   current_image_name, awaiting_ack, missing_chunks_requested,
                   cb, result, hist>>

\* ---- callback thread: _on_message -> _handle_ack on the ack topic

\* an {"ACK_OK": ...} message arrives; self.awaiting_ack = False.
\* cb.for is the capture the server acknowledges, which the payload does not
\* carry.
AckOkAwaiting ==
    /\ pc # "done"
    /\ cb = CbIdle
    /\ \E f \in Started :
          /\ cb' = [pc |-> "ack_name", for |-> f, list |-> <<>>]
          /\ hist' = [hist EXCEPT
                        !.terminal = @ \cup {LastStarted},
                        !.own_ack = IF f = i + 1 /\ pc \in {"chunks", "wait"}
                                    THEN f ELSE @]
    /\ awaiting_ack' = FALSE
    /\ out' = <<>>
    /\ UNCHANGED <<recv_vars, image_data, chunk_size, net, test, pc, i,
                   chunk_id, current_image_name, missing_chunks_requested,
                   result>>

\* self.current_image_name = None
AckOkName ==
    /\ cb.pc = "ack_name"
    /\ current_image_name' = NoName
    /\ cb' = [cb EXCEPT !.pc = "ack_missing"]
    /\ out' = <<>>
    /\ UNCHANGED <<recv_vars, image_data, chunk_size, net, test, pc, i,
                   chunk_id, awaiting_ack, missing_chunks_requested, result,
                   hist>>

\* self.missing_chunks_requested = []
AckOkMissing ==
    /\ cb.pc = "ack_missing"
    /\ missing_chunks_requested' = <<>>
    /\ cb' = CbIdle
    /\ out' = <<>>
    /\ hist' = [hist EXCEPT !.story = IF @ = 2 THEN 3 ELSE @]
    /\ UNCHANGED <<recv_vars, image_data, chunk_size, net, test, pc, i,
                   chunk_id, current_image_name, awaiting_ack, result>>

\* a {"missing_chunks": [...]} message arrives:
\* self.missing_chunks_requested = missing_chunks; if self.current_image_name:
MissingNotice ==
    /\ pc # "done"
    /\ cb = CbIdle
    /\ Started # {}
    /\ \E missing_chunks \in NoticeLists :
          /\ missing_chunks_requested' = missing_chunks
          /\ IF current_image_name # NoName
             THEN /\ hist.resends < MaxResendRounds
                  /\ cb' = [pc |-> "resend", for |-> 0, list |-> missing_chunks]
             ELSE cb' = CbIdle
    /\ out' = <<>>
    /\ UNCHANGED <<recv_vars, image_data, chunk_size, net, test, pc, i,
                   chunk_id, current_image_name, awaiting_ack, result, hist>>

\* time.sleep(0.5); self._send_missing_chunks(self.current_image_name,
\* missing_chunks)
Resend ==
    /\ cb.pc = "resend"
    /\ \E regenerated \in RandomImages :
          out' = ResendBatch(current_image_name, cb.list, regenerated)
    /\ cb' = CbIdle
    /\ hist' = [hist EXCEPT !.resends = @ + 1,
                            !.story = IF @ = 1 /\ pc = "wait" /\ cb.list # <<>>
                                      THEN 2 ELSE @]
    /\ UNCHANGED <<recv_vars, image_data, chunk_size, net, test, pc, i,
                   chunk_id, current_image_name, awaiting_ack,
                   missing_chunks_requested, result>>

\* the sender's fields while only the receiver is modelled
DevAbsent ==
    /\ test = "normal"
    /\ pc = "done"
    /\ i = 0
    /\ chunk_id = 0
    /\ current_image_name = NoName
    /\ awaiting_ack = FALSE
    /\ missing_chunks_requested = <<>>
    /\ cb = CbIdle
    /\ out = <<>>
    /\ result = "none"
    /\ hist = HistInit

-----------------------------------------------------------------------------
\* Inbound payloads that make on_message raise

\* text that json.loads rejects
BadJson == [malformed |-> TRUE]

\* a payload value that base64.b64decode rejects: text with wrong padding
BadStr == [kind |-> "badstr", bytes |-> <<>>]

\* chunk messages without the key 'payload' (KeyError), with text that is
\* not base64 (binascii.Error) and with a list of integers (TypeError)
MalformedChunks ==
    UNION {{[device_id |-> d, image_name |-> n, chunk_id |-> c],
            [device_id |-> d, image_name |-> n, chunk_id |-> c,
             payload |-> BadStr],
            [device_id |-> d, image_name |-> n, chunk_id |-> c,
             payload |-> IntList(ChunkData(image_data, chunk_size, c))]} :
           d \in DeviceIds, n \in ImageNames, c \in 0..MaxChunkId}

MalformedPayloads == {BadJson} \cup MalformedChunks

-----------------------------------------------------------------------------
\* Spec: the receiver under any sequence of inbound messages

Init ==
    /\ image_chunks = <<>>
    /\ saved = NoFile
    /\ save_calls = <<>>
    /\ recv_out = <<>>
    /\ last_msg = "none"
    /\ delivered = <<>>
    /\ image_data \in Images
    /\ chunk_size \in 1..MaxChunkSize
    /\ net = {}
    /\ DevAbsent

\* save_image calls made so far for key k
Calls(k) == IF k \in DOMAIN save_calls THEN save_calls[k] ELSE 0

\* one invocation of the on_message callback
Handle(p) ==
    LET r == on_message(image_chunks, saved, p)
        k == r.sv.key
    IN
    /\ image_chunks' = r.ic
    /\ saved' = r.sv
    /\ recv_out' = ReceiverPublishes(image_chunks, saved, p)
    /\ last_msg' = MsgKind(p)
    /\ IF r.n = 0
       THEN save_calls' = save_calls
       ELSE /\ Calls(k) < MaxSaves
            /\ save_calls' = [j \in (DOMAIN save_calls) \cup {k} |->
                                IF j = k THEN Calls(k) + 1 ELSE save_calls[j]]

RecvMetadata ==
    /\ \E p \in MetadataPayloads : Handle(p)
    /\ UNCHANGED <<delivered, image_data, chunk_size, net, dev_vars>>

RecvChunk ==
    /\ \E p \in ChunkPayloads : Handle(p)
    /\ UNCHANGED <<delivered, image_data, chunk_size, net, dev_vars>>

RecvMalformed ==
    /\ \E p \in MalformedPayloads : Handle(p)
    /\ UNCHANGED <<delivered, image_data, chunk_size, net, dev_vars>>

Next == RecvMetadata \/ RecvChunk \/ RecvMalformed

Spec == Init /\ [][Next]_vars

-----------------------------------------------------------------------------
\* SpecOrder: one transfer whose metadata message and chunk messages
\* 0..total-1 are each delivered once, in any order

\* the messages of the transfer of image_data under name n
TransferMsgs(d, n, data, csize) ==
    {MetadataMsg(d, n, TotalChunks(data, csize))}
    \cup {ChunkMsg(d, n, c, ChunkData(data, csize, c)) :
            c \in 0..(TotalChunks(data, csize) - 1)}

OrderNames == {<<"x">>, <<"y">>, <<"z">>}

InitOrder ==
    /\ image_chunks = <<>>
    /\ saved = NoFile
    /\ save_calls = <<>>
    /\ recv_out = <<>>
    /\ last_msg = "none"
    /\ delivered = <<>>
    /\ image_data \in Images
    /\ chunk_size \in 1..MaxChunkSize
    /\ \E d \in DeviceIds, n \in OrderNames :
          net = TransferMsgs(d, n, image_data, chunk_size)
    /\ DevAbsent

\* the receiver after on_message has handled the payloads of msgs in turn
RECURSIVE HandleAll(_, _, _)
HandleAll(ic, sv, msgs) ==
    IF msgs = <<>>
    THEN [ic |-> ic, sv |-> sv]
    ELSE LET r == on_message(ic, sv, Head(msgs))
         IN  HandleAll(r.ic, r.sv, Tail(msgs))

\* the messages of a transfer in the order the sender publishes them:
\* metadata, then chunk 0, 1, ... total-1
AscendingOrder(d, n, data, csize) ==
    <<MetadataMsg(d, n, TotalChunks(data, csize))>>
    \o [c \in 1..TotalChunks(data, csize) |->
          ChunkMsg(d, n, c - 1, ChunkData(data, csize, c - 1))]

\* how a delivered message is noted in delivered: a chunk by its chunk_id,
\* the metadata message by None
Tag(p) == IF "chunk_id" \in DOMAIN p THEN p.chunk_id ELSE None

\* the broker delivers one of the messages in flight
Deliver ==
    /\ \E p \in net :
          /\ Handle(p)
          /\ net' = net \ {p}
          /\ delivered' = Append(delivered, Tag(p))
    /\ UNCHANGED <<image_data, chunk_size, dev_vars>>

NextOrder == Deliver

SpecOrder == InitOrder /\ [][NextOrder]_vars

-----------------------------------------------------------------------------
\* SpecLossy: one transfer of which the broker delivers only some messages
\* (a message of the transfer may never arrive); every message in flight is
\* delivered in the end, and then the receiver's callback is not called again

InitLossy ==
    /\ image_chunks = <<>>
    /\ saved = NoFile
    /\ save_calls = <<>>
    /\ recv_out = <<>>
    /\ last_msg = "none"
    /\ delivered = <<>>
    /\ image_data \in Images
    /\ chunk_size \in 1..MaxChunkSize
    /\ \E d \in DeviceIds, n \in ImageNames :
          net \in SUBSET TransferMsgs(d, n, image_data, chunk_size)
    /\ DevAbsent

NextLossy == Deliver

\* client.loop_forever() calls on_message for every message the broker hands
\* over; the receiver has no other thread and no timer
SpecLossy == InitLossy /\ [][NextLossy]_vars /\ WF_vars(NextLossy)

-----------------------------------------------------------------------------
\* SpecIds: the receiver under any sequence of inbound messages of two
\* identities (device_id, image_name) whose texts hold the character "|"

\* device "a|b" with image "c", and device "a" with image "b|c"
SeparatorIds == {<< <<"a", "|", "b">>, <<"c">> >>,
                 << <<"a">>, <<"b", "|", "c">> >>}

IdMetadataPayloads ==
    {MetadataMsg(id[1], id[2], t) : id \in SeparatorIds, t \in 0..MaxTotal}

IdChunkPayloads ==
    {ChunkMsg(id[1], id[2], c, ChunkData(image_data, chunk_size, c)) :
        id \in SeparatorIds, c \in 0..MaxChunkId}

RecvIdMetadata ==
    /\ \E p \in IdMetadataPayloads : Handle(p)
    /\ UNCHANGED <<delivered, image_data, chunk_size, net, dev_vars>>

RecvIdChunk ==
    /\ \E p \in IdChunkPayloads : Handle(p)
    /\ UNCHANGED <<delivered, image_data, chunk_size, net, dev_vars>>

NextIds == RecvIdMetadata \/ RecvIdChunk

SpecIds == Init /\ [][NextIds]_vars

-----------------------------------------------------------------------------
\* SpecWire: the receiver is handed what the simulator publishes on its data
\* topic for one capture in normal mode - the metadata message and every
\* chunk message, none lost, each delivered once

\* the JSON bodies capture_and_send_image publishes for image data
SenderMsgs(name, data, csize) ==
    {MetadataOut(name, data, csize).body}
    \cup {ChunkOut(name, c, data, csize).body :
            c \in 0..(TotalChunks(data, csize) - 1)}

InitWire ==
    /\ image_chunks = <<>>
    /\ saved = NoFile
    /\ save_calls = <<>>
    /\ recv_out = <<>>
    /\ last_msg = "none"
    /\ delivered = <<>>
    /\ image_data \in RandomImages
    /\ chunk_size = DefaultChunkSize
    /\ net = SenderMsgs(ImageName(1), image_data, chunk_size)
    /\ DevAbsent

NextWire == Deliver

SpecWire == InitWire /\ [][NextWire]_vars

-----------------------------------------------------------------------------
\* SpecDev: one test driver of the simulator with its two threads, under a
\* server that may send any acknowledgment once a transfer has started

InitDev ==
    /\ image_chunks = <<>>
    /\ saved = NoFile
    /\ save_calls = <<>>
    /\ recv_out = <<>>
    /\ last_msg = "none"
    /\ delivered = <<>>
    /\ net = {}
    /\ image_data = <<>>
    /\ chunk_size = DefaultChunkSize
    /\ test \in Tests
    /\ pc = "start"
    /\ i = 0
    /\ chunk_id = 0
    /\ current_image_name = NoName
    /\ awaiting_ack = FALSE
    /\ missing_chunks_requested = <<>>
    /\ cb = CbIdle
    /\ out = <<>>
    /\ result = "none"
    /\ hist = HistInit

NextDev ==
    \/ SendStatus
    \/ Capture
    \/ SendMetadata
    \/ SendChunk
    \/ ChunksSent
    \/ WaitAcked
    \/ WaitTimeout
    \/ CheckTest
    \/ CheckDrain
    \/ Disconnect
    \/ AckOkAwaiting
    \/ AckOkName
    \/ AckOkMissing
    \/ MissingNotice
    \/ Resend

SpecDev == InitDev /\ [][NextDev]_vars

-----------------------------------------------------------------------------
\* Claims about the receiver

\* the buffer the latest save_image call saw held every chunk of the
\* artifact under transfer and nothing else
SavedWholeTransfer ==
    /\ saved # NoFile
    /\ saved.max_chunks = TotalChunks(image_data, chunk_size)
    /\ saved.ids = 0..(saved.max_chunks - 1)

\* C1: for every image of size S >= 1 and chunk size C >= 1 the sender's
\* total_chunks is ceil(S / C), and when save_image holds the sender's chunks
\* 0..total_chunks-1 (the byte ranges [i*C, min((i+1)*C, S))) it writes
\* exactly the S bytes of the image.
C1_RoundTrip ==
    LET S == Len(image_data)
        C == chunk_size
        T == TotalChunks(image_data, chunk_size)
    IN  /\ T * C >= S
        /\ (T - 1) * C < S
        /\ SavedWholeTransfer => saved.bytes = image_data

\* C1 witness: an image of several chunks, the last one shorter than
\* chunk_size, has been saved from all of its chunks
C1_Witness ==
    /\ SavedWholeTransfer
    /\ saved.max_chunks >= 2
    /\ Len(image_data) % chunk_size # 0

\* C2: the receiver never saves an image while some index in
\* 0..expected_total-1 is absent from the buffer's chunk map.
C2_NeverSavesIncomplete ==
    saved # NoFile => (0..(saved.max_chunks - 1)) \subseteq saved.ids

\* C3: once the metadata message and all chunk messages 0..total-1 of a
\* transfer have been handled, in whatever order, the assembled image has
\* been saved.
C3_SavedWhenAllHandled ==
    net = {} => /\ saved # NoFile
                /\ saved.bytes = image_data

\* C4: save_image is called at most once per key, and after the save the
\* key's buffer is absent from image_chunks.
C4_SavedOncePerKey ==
    \A k \in DOMAIN save_calls :
        /\ save_calls[k] <= 1
        /\ save_calls[k] >= 1 => k \notin DOMAIN image_chunks

-----------------------------------------------------------------------------
\* Claims about the sender

\* the chunk messages among the messages the latest step published
ChunkMsgsOut == {j \in 1..Len(out) : "chunk_id" \in DOMAIN out[j].body}

\* the metadata messages among them
MetadataMsgsOut == {j \in 1..Len(out) : "total_chunks_count" \in DOMAIN out[j].body}

\* C5: the sender makes at most retry_budget (2) resend rounds for one
\* artifact: the notice that pushes the count past the budget is not answered
\* by a resend.
C5_RetryBudget == hist.resends <= 2

\* C6: every chunk message the sender publishes for index i, the first time
\* or in a resend, carries the bytes [i*C, min((i+1)*C, S)) of the image it
\* captured, so that the receiver can only ever assemble the captured image.
C6_ResendIsByteExact ==
    \A j \in ChunkMsgsOut :
        out[j].body.payload.bytes =
            ChunkData(image_data, chunk_size, out[j].body.chunk_id)

\* C7: awaiting_ack is cleared only by a success acknowledgment that belongs
\* to the artifact in flight.
C7_AckKeyedToArtifact ==
    [][(awaiting_ack /\ ~awaiting_ack') => cb'.for = i + 1]_vars

\* C8: in the missing_chunks test, once the device has left out chunks,
\* answered a missing-chunk notice by a resend and then handled the success
\* acknowledgment, awaiting_ack is false and missing_chunks_requested is
\* non-empty, and the test returns True.
C8_MissingChunksTestPasses ==
    (test = "missing_chunks" /\ hist.story = 3) =>
        /\ ~awaiting_ack
        /\ Len(missing_chunks_requested) > 0
        /\ pc = "done" => result = "passed"

\* C9: in the recovery drain at most one started capture has not ended, and
\* the metadata message of capture k+1 is published only after the session of
\* every capture 1..k has ended (acknowledged, or timed out).
C9_DrainSequential ==
    test = "offline_recovery" =>
        /\ Cardinality(Started \ hist.terminal) <= 1
        /\ \A j \in MetadataMsgsOut :
              /\ out[j].body.image_name = ImageName(i + 1)
              /\ (1..i) \subseteq hist.terminal

\* C9 witness: the metadata message of the second capture is being published
\* and the first capture's session has ended
C9_Witness ==
    /\ test = "offline_recovery"
    /\ \E j \in MetadataMsgsOut : out[j].body.image_name = ImageName(2)
    /\ 1 \in hist.terminal

\* C10: once a capture's session has ended with awaiting_ack still set, the
\* drain is over: no message of a later capture is published; and when that
\* capture is the second of 3 the drain ends with 1 acknowledged, 1 failed
\* and 1 never sent.
C10_DrainStopsOnAbandon ==
    (test = "offline_recovery" /\ hist.abandoned # 0) =>
        /\ pc \in {"finish", "done"}
        /\ i + 1 = hist.abandoned
        /\ \A j \in 1..Len(out) :
              out[j].topic = "data" =>
                  out[j].body.image_name \in
                      {NoName} \cup {ImageName(k) : k \in 1..hist.abandoned}
        /\ (hist.abandoned = 2 /\ pc = "done") =>
              /\ hist.n_ok = 1
              /\ hist.n_fail = 1
              /\ offline_image_count - hist.n_ok - hist.n_fail = 1

\* C10 witness: the drain has ended after its second capture timed out
C10_Witness ==
    /\ test = "offline_recovery"
    /\ hist.abandoned = 2
    /\ pc = "done"
    /\ hist.n_ok = 1

\* C11: in a drain the status message that reports the backlog
\* (pendingImg = offline_image_count) is published before the metadata or a
\* chunk of any backlog entry, and once: no second status message follows.
C11_StatusBeforeDrain ==
    test = "offline_recovery" =>
        /\ hist.statuses <= 1
        /\ (Started # {} \/ \E j \in 1..Len(out) : out[j].topic = "data") =>
              /\ hist.statuses = 1
              /\ hist.pending = offline_image_count
        /\ pc = "done" => hist.statuses = 1

\* C11 witness: the drain has published the metadata of its last entry
C11_Witness ==
    /\ test = "offline_recovery"
    /\ \E j \in MetadataMsgsOut :
          out[j].body.image_name = ImageName(offline_image_count)
    /\ hist.statuses = 1
    /\ hist.pending = offline_image_count

\* the chunk ids a notice's list names
Named(list) == {list[j] : j \in 1..Len(list)}

\* the step in which the callback thread returns from _send_missing_chunks
ResendStep == cb.pc = "resend" /\ cb'.pc = "idle"

\* C12 as stated: answering a missing-chunk notice for the artifact in
\* flight, the sender publishes exactly one chunk message for each index the
\* notice names and none for another index, all under the current image
\* name, and leaves awaiting_ack and current_image_name as they were.
C12_OnePerIndexNamed ==
    [][ResendStep =>
          /\ \A j \in 1..Len(out') :
                /\ "chunk_id" \in DOMAIN out'[j].body
                /\ out'[j].body.chunk_id \in Named(cb.list)
                /\ out'[j].body.image_name = current_image_name
          /\ \A c \in Named(cb.list) :
                Cardinality({j \in 1..Len(out') : out'[j].body.chunk_id = c}) = 1
          /\ awaiting_ack' = awaiting_ack
          /\ current_image_name' = current_image_name]_vars

\* C12 amended: the sender publishes one chunk message for each entry of the
\* notice's list, in the list's order (an index the list holds twice is
\* sent twice), none for an index not named, all under the current image
\* name, and leaves awaiting_ack and current_image_name as they were.
C12_OnePerEntry ==
    [][ResendStep =>
          /\ Len(out') = Len(cb.list)
          /\ \A j \in 1..Len(out') :
                /\ "chunk_id" \in DOMAIN out'[j].body
                /\ out'[j].body.chunk_id = cb.list[j]
                /\ out'[j].body.image_name = current_image_name
          /\ awaiting_ack' = awaiting_ack
          /\ current_image_name' = current_image_name]_vars

\* C12 witness: a notice that names one index twice has been answered with
\* two chunk messages for it, and the sender still waits
C12_Witness ==
    /\ hist.resends >= 1
    /\ cb = CbIdle
    /\ Len(missing_chunks_requested) = 2
    /\ Len(out) = 2
    /\ \A j \in 1..2 :
          /\ "chunk_id" \in DOMAIN out[j].body
          /\ out[j].body.chunk_id = missing_chunks_requested[j]
          /\ out[j].body.image_name = current_image_name
    /\ out[1].body.chunk_id = out[2].body.chunk_id
    /\ awaiting_ack
    /\ current_image_name # NoName

\* C13: the on_message call that completes a buffer (save_image is called)
\* publishes a success acknowledgment, and a missing-chunk acknowledgment
\* the receiver publishes lists the absent indices of its buffer ascending.
C13_ReceiverAcknowledges ==
    [][/\ save_calls' # save_calls =>
             \E j \in 1..Len(recv_out') : "ACK_OK" \in DOMAIN recv_out'[j]
       /\ \A j \in 1..Len(recv_out') :
             "missing_chunks" \in DOMAIN recv_out'[j] =>
                 \E k \in DOMAIN image_chunks' :
                    LET data == image_chunks'[k]
                        absent == (0..(data.max_chunks - 1)) \ DOMAIN data.chunks
                        list == recv_out'[j].missing_chunks
                    IN  /\ Named(list) = absent
                        /\ Len(list) = Cardinality(absent)
                        /\ \A a, b \in 1..Len(list) : a < b => list[a] < list[b]
      ]_vars

\* C14: when the metadata message of a transfer was delivered first and then
\* its chunks 0..total-1, each once, in whatever order, save_image has
\* written the bytes it writes when the chunks are delivered in ascending
\* order, and the buffer is gone in both cases.
C14_OrderIndependent ==
    (net = {} /\ delivered # <<>> /\ Head(delivered) = None) =>
        \A d \in DeviceIds, n \in OrderNames :
            LET asc == HandleAll(<<>>, NoFile,
                                 AscendingOrder(d, n, image_data, chunk_size))
            IN  /\ saved # NoFile
                /\ saved.bytes = asc.sv.bytes
                /\ image_chunks = asc.ic

\* C14 witness: three chunks were delivered after the metadata, the last
\* one first, and the image is saved
C14_Witness ==
    /\ net = {}
    /\ Len(delivered) = 4
    /\ Head(delivered) = None
    /\ delivered[2] = 2
    /\ delivered[3] = 0
    /\ saved # NoFile
    /\ Len(saved.bytes) = 3

\* the buffer of payload p's identity, NewBuffer when the map has none
BufferOf(ic, p) ==
    LET k == ImageKey(p.device_id, p.image_name)
    IN  IF k \in DOMAIN ic THEN ic[k] ELSE NewBuffer

\* a buffer is complete when its expected total is known and every index
\* 0..total-1 is stored
IsComplete(data) ==
    /\ data.max_chunks # None
    /\ \A c \in 0..(data.max_chunks - 1) : c \in DOMAIN data.chunks

\* C15: handling a chunk message whose chunk_id an incomplete buffer already
\* holds changes nothing: the buffer map (stored indices, received_count,
\* stored bytes) stays as it is and save_image is not called.
C15_DuplicateChunkIsNoOp ==
    \A p \in ChunkPayloads :
        (/\ p.chunk_id \in DOMAIN BufferOf(image_chunks, p).chunks
         /\ ~IsComplete(BufferOf(image_chunks, p)))
        => LET r == on_message(image_chunks, saved, p)
           IN  /\ r.ic = image_chunks
               /\ r.sv = saved
               /\ r.n = 0

\* C16: when the expected total of a buffer is known, a chunk message whose
\* chunk_id is >= that total is rejected: the buffer map stays as it is and
\* save_image is not called.
C16_OutOfRangeRejected ==
    \A p \in ChunkPayloads :
        (/\ BufferOf(image_chunks, p).max_chunks # None
         /\ p.chunk_id >= BufferOf(image_chunks, p).max_chunks)
        => LET r == on_message(image_chunks, saved, p)
           IN  /\ r.ic = image_chunks
               /\ r.sv = saved
               /\ r.n = 0

\* C17: a buffer whose expected total is known holds at most that many
\* chunks, each under an index below the total - also when chunks arrived
\* before the metadata and when a metadata message lowers the total.
C17_BufferWithinTotal ==
    \A k \in DOMAIN image_chunks :
        image_chunks[k].max_chunks # None =>
            /\ Cardinality(DOMAIN image_chunks[k].chunks) <= image_chunks[k].max_chunks
            /\ \A c \in DOMAIN image_chunks[k].chunks : c < image_chunks[k].max_chunks

\* C18: every reassembly buffer is destroyed in the end - by completion, or
\* by eviction when its transfer is abandoned - so that no buffer stays in
\* the map for ever once messages stop arriving.
C18_BuffersEventuallyDestroyed ==
    (image_chunks # <<>>) ~> (image_chunks = <<>>)

\* C19: handling a message of one identity (device_id, image_name) leaves
\* the buffer of every other identity as it was - not created, not removed,
\* not changed - also when device ids or image names hold the character "|".
C19_IdentitiesIsolated ==
    \A p \in IdMetadataPayloads \cup IdChunkPayloads :
        \A id \in SeparatorIds :
            id # <<p.device_id, p.image_name>> =>
                LET k == ImageKey(id[1], id[2])
                    r == on_message(image_chunks, saved, p)
                IN  /\ (k \in DOMAIN r.ic) = (k \in DOMAIN image_chunks)
                    /\ k \in DOMAIN image_chunks => r.ic[k] = image_chunks[k]

\* C20: an on_message call on a malformed message (text that is not JSON, a
\* chunk message without payload or with a payload that does not decode)
\* leaves the buffer map, the files and the save count as they were, so that
\* the chunks stored before it still complete their image.
C20_MalformedIsolated ==
    [][last_msg' = "malformed" =>
          /\ image_chunks' = image_chunks
          /\ saved' = saved
          /\ save_calls' = save_calls]_vars

\* C20 witness: a malformed message was handled while the buffer held a
\* chunk of a transfer not yet complete
C20_Witness ==
    /\ last_msg = "malformed"
    /\ \E k \in DOMAIN image_chunks :
          /\ image_chunks[k].max_chunks = TotalChunks(image_data, chunk_size)
          /\ image_chunks[k].received_count >= 1
          /\ image_chunks[k].received_count < image_chunks[k].max_chunks

\* C21: a capture whose own ACK_OK was handled at any time after its
\* metadata was published - also while its chunks were still being sent,
\* before awaiting_ack is set - is acknowledged: its wait loop does not end
\* by the timeout.
C21_EarlyAckCounts ==
    [][(pc = "wait" /\ pc' = "check" /\ awaiting_ack) =>
          hist.own_ack # i + 1]_vars

\* C22: on_message recognises what the sender publishes: once the sender's
\* metadata message is handled, the buffer of (device_mac, image name) has
\* the sender's chunk count as its expected total; once a chunk message is
\* handled its bytes are stored under its chunk_id (or the image is saved);
\* and when every message of the transfer is handled the image is saved
\* with the bytes the sender captured.
C22_SenderFormatAccepted ==
    LET k == ImageKey(DeviceMac, ImageName(1))
        T == TotalChunks(image_data, chunk_size)
    IN
    /\ \A j \in 1..Len(delivered) :
          saved = NoFile =>
              /\ k \in DOMAIN image_chunks
              /\ delivered[j] = None => image_chunks[k].max_chunks = T
              /\ delivered[j] # None =>
                    /\ delivered[j] \in DOMAIN image_chunks[k].chunks
                    /\ image_chunks[k].chunks[delivered[j]] =
                           ChunkData(image_data, chunk_size, delivered[j])
    /\ (net = {} /\ delivered # <<>> /\ Head(delivered) = None) =>
          /\ saved # NoFile
          /\ saved.bytes = image_data

====
